---- MODULE Spec2Model ----
(***************************************************************************)
(* The multipart-upload routes of server.js (create-multipart, sign-part,  *)
(* complete-multipart, abort-multipart) and the object store they call.    *)
(* The server keeps no state between requests: the state is the store's    *)
(* (one upload, its parts, the committed object) and the position of the   *)
(* request being handled.                                                  *)
(***************************************************************************)
EXTENDS Integers, Sequences, FiniteSets, TLC

\* ------------------------------------------------------------------ bounds
MaxPartNumber == 2      \* part numbers a request or the store may use: 1..MaxPartNumber
MaxParts == 2           \* longest parts array of a complete request
MaxListCalls == 3       \* ListParts calls one complete request may make before the model stops drawing replies

\* ------------------------------------------------------ program constants
MaxPartsPerPage == 1000
NoMarker == -1          \* partNumberMarker === undefined
DefaultErrorStatus == 500

\* ------------------------------------------------------------ JSON values
\* A JSON value of a request body: its type, its characters when it is a
\* string, its number when it is a number or a boolean (1 = true).
Undef == [t |-> "undefined", s |-> <<>>, n |-> 0]
Str(cs) == [t |-> "string", s |-> cs, n |-> 0]
Num(k) == [t |-> "number", s |-> <<>>, n |-> k]
Bool(b) == [t |-> "boolean", s |-> <<>>, n |-> IF b THEN 1 ELSE 0]
Arr == [t |-> "array", s |-> <<>>, n |-> 0]
Obj == [t |-> "object", s |-> <<>>, n |-> 0]
Null == [t |-> "null", s |-> <<>>, n |-> 0]

\* JavaScript truthiness, as `!key` and `!uploadId` test it.
Truthy(v) ==
  CASE v.t \in {"undefined", "null"} -> FALSE
    [] v.t = "string" -> Len(v.s) > 0
    [] v.t = "number" -> v.n # 0
    [] v.t = "boolean" -> v.n = 1
    [] OTHER -> TRUE

\* Mutant of containsTraversal: looks for '/..' only, so a leading '..' passes.
containsSlashDotDot(cs) ==
  \E i \in 1..(Len(cs) - 2) : cs[i] = "/" /\ cs[i + 1] = "." /\ cs[i + 2] = "."

\* value.includes('..')
containsTraversal(cs) == \E i \in 1..(Len(cs) - 1) : cs[i] = "." /\ cs[i + 1] = "."

\* value.startsWith('/')
startsWithSlash(cs) == Len(cs) > 0 /\ cs[1] = "/"

\* key.startsWith('/') || containsTraversal(key) on a value that passed `!key`:
\* only a string has startsWith; on any other type the call throws a TypeError.
KeyCheck(key) ==
  IF key.t # "string" THEN "throw"
  ELSE IF startsWithSlash(key.s) \/ containsTraversal(key.s) THEN "invalid"
  ELSE "ok"

\* String.prototype.trim on a sequence of characters.
RECURSIVE TrimLeft(_)
TrimLeft(cs) == IF Len(cs) > 0 /\ cs[1] = " " THEN TrimLeft(Tail(cs)) ELSE cs
RECURSIVE TrimRight(_)
TrimRight(cs) ==
  IF Len(cs) > 0 /\ cs[Len(cs)] = " " THEN TrimRight(SubSeq(cs, 1, Len(cs) - 1)) ELSE cs
Trim(cs) == TrimRight(TrimLeft(cs))

\* ---- Number(value), for decimal literals and Infinity
\* A JavaScript number: not a number, infinite, or finite with a sign, a whole
\* part and the fact that a fraction follows it.
NaN == [kind |-> "nan", neg |-> FALSE, whole |-> 0, frac |-> FALSE]
Infinite(neg) == [kind |-> "infinite", neg |-> neg, whole |-> 0, frac |-> FALSE]
Finite(neg, whole, frac) == [kind |-> "finite", neg |-> neg, whole |-> whole, frac |-> frac]

DigitValue ==
  ("0" :> 0) @@ ("1" :> 1) @@ ("2" :> 2) @@ ("3" :> 3) @@ ("4" :> 4) @@
  ("5" :> 5) @@ ("6" :> 6) @@ ("7" :> 7) @@ ("8" :> 8) @@ ("9" :> 9)
AllDigits(cs) == \A i \in 1..Len(cs) : cs[i] \in DOMAIN DigitValue
RECURSIVE IntOf(_)
IntOf(ds) ==
  IF ds = <<>> THEN 0
  ELSE 10 * IntOf(SubSeq(ds, 1, Len(ds) - 1)) + DigitValue[ds[Len(ds)]]

\* An unsigned decimal literal: digits, with at most one point among them.
Unsigned(neg, cs) ==
  LET dots == {i \in 1..Len(cs) : cs[i] = "."}
  IN IF cs = <<"Infinity">> THEN Infinite(neg)
     ELSE IF dots = {}
     THEN (IF Len(cs) > 0 /\ AllDigits(cs) THEN Finite(neg, IntOf(cs), FALSE) ELSE NaN)
     ELSE LET d == CHOOSE i \in dots : \A j \in dots : i <= j
              ip == SubSeq(cs, 1, d - 1)
              fp == SubSeq(cs, d + 1, Len(cs))
          IN IF AllDigits(ip) /\ AllDigits(fp) /\ Len(ip) + Len(fp) > 0
             THEN Finite(neg, IntOf(ip), \E i \in 1..Len(fp) : fp[i] # "0")
             ELSE NaN

\* Number(string): blanks around the literal are dropped, the empty string is
\* 0, one sign may lead.
Number(cs) ==
  LET t == Trim(cs)
  IN IF t = <<>> THEN Finite(FALSE, 0, FALSE)
     ELSE IF t[1] \in {"-", "+"} THEN Unsigned(t[1] = "-", Tail(t))
     ELSE Unsigned(FALSE, t)

isFinite(x) == x.kind = "finite"
\* parsed <= 0 (false of NaN)
NotAboveZero(x) ==
  \/ x.kind = "infinite" /\ x.neg
  \/ x.kind = "finite" /\ (x.neg \/ (x.whole = 0 /\ ~x.frac))
\* Math.floor of a finite number
floor(x) ==
  IF ~x.frac THEN x
  ELSE IF x.neg THEN Finite(TRUE, x.whole + 1, FALSE) ELSE Finite(FALSE, x.whole, FALSE)
\* Math.max of two finite numbers that are not negative
AtLeast(x, y) == x.whole > y.whole \/ (x.whole = y.whole /\ (x.frac \/ ~y.frac))
max(x, y) == IF AtLeast(x, y) THEN x ELSE y

\* Number(x) of a JSON value: a number is itself (given by its literal when it
\* has a fraction), a string or an array goes through its text, a boolean is
\* 0 or 1, null is 0, undefined and objects are not numbers.
NumLit(cs) == [t |-> "number", s |-> cs, n |-> 0]
ArrOf(cs) == [t |-> "array", s |-> cs, n |-> 0]
ToNumber(v) ==
  CASE v.t = "number" /\ v.s = <<>> -> Finite(v.n < 0, IF v.n < 0 THEN -v.n ELSE v.n, FALSE)
    [] v.t = "number" /\ v.s # <<>> -> Number(v.s)
    [] v.t \in {"string", "array"} -> Number(v.s)
    [] v.t = "boolean" -> Finite(FALSE, v.n, FALSE)
    [] v.t = "null" -> Finite(FALSE, 0, FALSE)
    [] OTHER -> NaN
isInteger(x) == x.kind = "finite" /\ ~x.frac

\* ------------------------------------------------------------ request inputs
ValidKey == Str(<<"v", "/", "a">>)
TraversalKey == Str(<<".", ".", "/", "e">>)
AbsoluteKey == Str(<<"/", "e">>)
Keys == {Undef, Str(<<>>), ValidKey, TraversalKey, AbsoluteKey,
         Num(0), Num(7), Bool(TRUE), Arr, Obj}

TheUploadId == Str(<<"u", "1">>)
UploadIdValues == {Undef, TheUploadId}

PartNumbers == 1..MaxPartNumber
\* Number(part.PartNumber ?? part.partNumber ?? part): an integer, or a number
\* that is no integer (NaN, 1.5), written [int |-> FALSE].
NotInteger == [int |-> FALSE, v |-> 1]
Whole(k) == [int |-> TRUE, v |-> k]
RawPartNumbers == {NotInteger} \cup {Whole(k) : k \in 0..MaxPartNumber}

NoEtag == <<>>          \* null, undefined or '' : every falsy token
PaddedEtag == Str(<<" ", "c">>)     \* a token the client sends, with a leading blank
RawEtags == {Undef, PaddedEtag}
Digit == <<"1", "2", "3", "4", "5", "6", "7", "8", "9">>
StoreEtag(pn) == <<"e", Digit[pn]>>   \* the token the store gave part pn

\* The entries drawn: a token or none beside a valid part number, none beside an invalid one.
RawPart ==
  {[pn |-> pn, etag |-> etag] : pn \in {Whole(k) : k \in PartNumbers}, etag \in RawEtags}
    \cup {[pn |-> pn, etag |-> Undef] : pn \in {NotInteger, Whole(0)}}
RECURSIVE SeqsUpTo(_, _)
SeqsUpTo(S, n) ==
  IF n = 0 THEN {<<>>}
  ELSE LET shorter == SeqsUpTo(S, n - 1)
       IN shorter \cup {Append(q, x) : q \in {r \in shorter : Len(r) = n - 1}, x \in S}
\* req.body.parts: not an array, or an array of entries
NotAnArray == [isArray |-> FALSE, items |-> <<>>]
PartsInputs == {NotAnArray} \cup {[isArray |-> TRUE, items |-> q] : q \in SeqsUpTo(RawPart, MaxParts)}

\* ------------------------------------------------------------ parsedParts
ValidPartNumber(pn) == pn.int /\ pn.v > 0
normalizedEtag(raw) ==
  IF raw.t = "string" /\ Len(Trim(raw.s)) > 0 THEN Trim(raw.s) ELSE NoEtag
\* parts.map(...).filter(Boolean)
ParsedPartsOf(items) ==
  LET valid == SelectSeq(items, LAMBDA p : ValidPartNumber(p.pn))
  IN [i \in 1..Len(valid) |->
        [PartNumber |-> valid[i].pn.v, ETag |-> normalizedEtag(valid[i].etag)]]

\* Mutant of MissingPartNumbers: every part number is looked up in the listing.
AllPartNumbers(parsed) == {parsed[i].PartNumber : i \in 1..Len(parsed)}

\* parsedParts.filter((part) => !part.ETag).map((part) => part.PartNumber), as the Set built from it
MissingPartNumbers(parsed) ==
  {parsed[i].PartNumber : i \in {j \in 1..Len(parsed) : parsed[j].ETag = NoEtag}}

\* etagLookup: a Map, here the set of its <<part number, token>> entries
LookupHas(lk, pn) == \E e \in lk : e[1] = pn
LookupGet(lk, pn) == IF LookupHas(lk, pn) THEN (CHOOSE e \in lk : e[1] = pn)[2] ELSE NoEtag

\* Array.prototype.sort((a, b) => a.PartNumber - b.PartNumber): stable, ascending
RECURSIVE InsertSorted(_, _)
InsertSorted(sorted, p) ==
  IF sorted = <<>> THEN <<p>>
  ELSE IF sorted[Len(sorted)].PartNumber <= p.PartNumber THEN Append(sorted, p)
  ELSE Append(InsertSorted(SubSeq(sorted, 1, Len(sorted) - 1), p), sorted[Len(sorted)])
\* Mutant of SortByPartNumber: the sort left out.
KeepOrder(ps) == ps

RECURSIVE SortByPartNumber(_)
SortByPartNumber(ps) ==
  IF ps = <<>> THEN <<>>
  ELSE InsertSorted(SortByPartNumber(SubSeq(ps, 1, Len(ps) - 1)), ps[Len(ps)])

\* Mutant of NormalizedPartsOf: the listing's token of a part is taken where
\* there is one, the client's otherwise.
NormalizedPartsStoreFirst(parsed, lk) ==
  LET filled == [i \in 1..Len(parsed) |->
                   [PartNumber |-> parsed[i].PartNumber,
                    ETag |-> IF LookupGet(lk, parsed[i].PartNumber) # NoEtag
                             THEN LookupGet(lk, parsed[i].PartNumber)
                             ELSE parsed[i].ETag]]
  IN SortByPartNumber(SelectSeq(filled, LAMBDA p : p.ETag # NoEtag))

\* parsedParts.map(part => etag ? {...} : null).filter(Boolean).sort(...)
NormalizedPartsOf(parsed, lk) ==
  LET filled == [i \in 1..Len(parsed) |->
                   [PartNumber |-> parsed[i].PartNumber,
                    ETag |-> IF parsed[i].ETag # NoEtag THEN parsed[i].ETag
                             ELSE LookupGet(lk, parsed[i].PartNumber)]]
  IN SortByPartNumber(SelectSeq(filled, LAMBDA p : p.ETag # NoEtag))

\* ------------------------------------------------------------------ state
VARIABLES
  h,        \* the request being handled, or the last one handled, and its response
  upl,      \* the store's upload TheUploadId: "none", "open", "completed" or "aborted"
  stored,   \* the part numbers the store holds for the upload
  object,   \* the part list the store committed, <<>> before that
  failed,   \* observation: the last complete request for the open upload was answered with an error
  boot,     \* the server process from its start to its listening: environment, configuration, exit
  client    \* the browser's side of one upload: the file's parts and the session tracker

vars == <<h, upl, stored, object, failed, boot, client>>
\* What the routes serve and change, and what they leave alone.
served == <<h, upl, stored, object, failed>>
outside == <<boot, client>>
\* While the routes are observed the process is listening and no browser is modelled.
Listening == [pc |-> "listening"]
NoClient == [pc |-> "none"]

NoBody == [error |-> "", names |-> {}, result |-> "none"]
ErrorBody(msg) == [error |-> msg, names |-> {}, result |-> "none"]
ResultBody(kind) == [error |-> "", names |-> {}, result |-> kind]

\* Whether s3Client.send threw while the request was handled, and the status
\* code the error carried (0: none).
NoStoreError == [thrown |-> FALSE, code |-> 0]
StoreError(code) == [thrown |-> TRUE, code |-> code]

\* IsTruncated and NextPartNumberMarker of the page the loop read last.
NoPage == [truncated |-> FALSE, next |-> NoMarker]

Idle ==
  [route |-> "none", pc |-> "idle", key |-> Undef, uploadId |-> Undef,
   parts |-> NotAnArray, partNumber |-> Undef, signed |-> 0,
   parsedParts |-> <<>>, etagLookup |-> {}, remaining |-> {}, marker |-> NoMarker,
   page |-> NoPage,
   calls |-> <<>>, listed |-> {}, honest |-> TRUE,
   rejected |-> NoStoreError, replyUploadId |-> Null, answerKey |-> Undef,
   status |-> 0, body |-> NoBody, webhook |-> "none"]

\* A command handed to s3Client.send: the log keeps its kind, its Key and UploadId,
\* MaxParts of a ListParts and the Parts of a CompleteMultipartUpload. The
\* PartNumberMarker of the ListParts call last sent is h.marker.
Call(op, key, uploadId, parts) ==
  [op |-> op, key |-> key, uploadId |-> uploadId,
   maxParts |-> IF op = "ListParts" THEN MaxPartsPerPage ELSE 0, parts |-> parts]

\* The handler's locals are dead once the loop has ended.
DropLocals(req) ==
  [req EXCEPT !.parsedParts = <<>>, !.etagLookup = {}, !.remaining = {}, !.marker = NoMarker,
              !.page = NoPage]

\* res.status(status).json(body): what stays is the request, the calls it made and the response.
Respond(req, status, body) ==
  [DropLocals(req) EXCEPT !.pc = "done", !.status = status, !.body = body]

\* The error-handling middleware: err.$metadata?.httpStatusCode || err.statusCode || 500.
\* code = 0 stands for an error that carries neither.
\* Mutant of ErrorStatus: every error is answered 500.
ErrorStatusAlways500(code) == DefaultErrorStatus

ErrorStatus(code) == IF code # 0 THEN code ELSE DefaultErrorStatus
RespondThrown(req, code) == Respond(req, ErrorStatus(code), ErrorBody("Internal server error"))
\* sendS3Command rethrows what s3Client.send threw; the middleware answers.
RespondRejected(req, code) == RespondThrown([req EXCEPT !.rejected = StoreError(code)], code)

\* The status codes of the errors s3Client.send throws (0: none carried).
StoreErrorCodes == {0, 404, 503}

Init ==
  /\ h = Idle
  /\ upl = "none"
  /\ stored = {}
  /\ object = <<>>
  /\ failed = FALSE
  /\ boot = Listening
  /\ client = NoClient

\* What a step of the complete handler lets the server observe of the upload:
\* a complete request for it is pending or succeeded (FALSE), or was answered
\* with an error while the upload is open (TRUE).
SessionRequest(req) == req.key = ValidKey /\ req.uploadId = TheUploadId
NoteOutcome(req, uplAfter) ==
  IF req.route = "complete" /\ SessionRequest(req)
  THEN req.pc = "done" /\ req.status # 200 /\ uplAfter = "open"
  ELSE failed /\ uplAfter = "open"

\* A request is taken up when none is being handled.
CanStart == h.pc = "idle"

\* The response has been written: the handler is gone, and nothing of the request is kept.
Finish ==
  /\ h.pc = "done"
  /\ h' = Idle
  /\ UNCHANGED <<upl, stored, object, failed>>
  /\ UNCHANGED outside

\* ------------------------------------------------- POST /api/complete-multipart
\* Mutant of AfterLoop: the unresolved-parts gate left out, so that only the
\* length check stands between an unresolved part and the finalize call.
AfterLoopNoGate(req) ==
  LET normalizedParts == NormalizedPartsOf(req.parsedParts, req.etagLookup)
  IN IF Len(normalizedParts) # Len(req.parsedParts)
     THEN Respond(req, 400, ErrorBody("Failed to normalize all multipart upload parts"))
     ELSE [DropLocals(req) EXCEPT !.pc = "finalize",
                      !.calls = Append(@, Call("CompleteMultipartUpload", req.key.s,
                                                req.uploadId.s, normalizedParts))]

\* The handler between the end of the ListParts loop and its next await: the
\* unresolved-parts gate, normalizedParts, the length check, the finalize call sent.
AfterLoop(req) ==
  IF req.remaining # {}
  THEN Respond(req, 400, [error |-> "Unable to resolve ETag for parts",
                          names |-> req.remaining, result |-> "none"])
  ELSE LET normalizedParts == NormalizedPartsOf(req.parsedParts, req.etagLookup)
       IN IF Len(normalizedParts) # Len(req.parsedParts)
          THEN Respond(req, 400, ErrorBody("Failed to normalize all multipart upload parts"))
          ELSE [DropLocals(req) EXCEPT !.pc = "finalize",
                           !.calls = Append(@, Call("CompleteMultipartUpload", req.key.s,
                                                     req.uploadId.s, normalizedParts))]

\* One ListParts call sent with the current marker.
SendListParts(req) ==
  [req EXCEPT !.pc = "list",
              !.calls = Append(@, Call("ListParts", req.key.s, req.uploadId.s, <<>>))]

\* The handler from its first line to its first await (or its response).
CompleteBegin(key, uploadId, parts) ==
  LET req == [Idle EXCEPT !.route = "complete", !.key = key, !.uploadId = uploadId,
                          !.parts = parts]
  IN IF ~Truthy(key) \/ ~Truthy(uploadId) \/ ~parts.isArray
     THEN Respond(req, 400, ErrorBody("key, uploadId and parts array are required"))
     ELSE IF KeyCheck(key) = "throw" THEN RespondThrown(req, 0)
     ELSE IF KeyCheck(key) = "invalid" THEN Respond(req, 400, ErrorBody("Invalid key"))
     ELSE LET parsedParts == ParsedPartsOf(parts.items)
              missingPartNumbers == MissingPartNumbers(parsedParts)
              parsed == [req EXCEPT !.parsedParts = parsedParts]
          IN IF Len(parsedParts) = 0
             THEN Respond(req, 400, ErrorBody("parts array must include valid PartNumber values"))
             ELSE IF missingPartNumbers # {}
             THEN SendListParts([parsed EXCEPT !.remaining = missingPartNumbers])
             ELSE AfterLoop(parsed)

\* The complete requests drawn: every key and upload id with a fixed parts
\* value, and every parts value with the valid key and upload id.
SomeParts == [isArray |-> TRUE, items |-> <<[pn |-> Whole(1), etag |-> PaddedEtag]>>]
CompleteInputs ==
  [key : Keys, uploadId : UploadIdValues, parts : {NotAnArray, SomeParts}]
    \cup [key : {ValidKey}, uploadId : {TheUploadId}, parts : PartsInputs]

CompleteStart ==
  /\ CanStart
  /\ \E in \in CompleteInputs : h' = CompleteBegin(in.key, in.uploadId, in.parts)
  /\ failed' = NoteOutcome(h', upl)
  /\ UNCHANGED <<upl, stored, object>>
  /\ UNCHANGED outside

\* ---- the store's answer to ListParts
\* A page: the part numbers it lists, those of them listed without an ETag,
\* IsTruncated and NextPartNumberMarker.
\* The handler reads the next marker of a truncated page only, so the pages
\* drawn carry one only then.
Page(pns, bare, truncated, next) ==
  [pns |-> pns, bare |-> bare, truncated |-> truncated, next |-> next]
ListedEtag(reply, pn) == IF pn \in reply.bare THEN NoEtag ELSE StoreEtag(pn)

\* A page as S3 documents it: the next parts after the marker in ascending
\* order, at most MaxParts of them, truncated exactly when parts remain, the
\* next marker the last part number of the page.
HonestPage(marker, reply) ==
  LET after == {pn \in stored : marker = NoMarker \/ pn > marker}
  IN /\ reply.pns \subseteq after
     /\ reply.bare = {}
     /\ \A p \in reply.pns, q \in after : q < p => q \in reply.pns
     /\ Cardinality(reply.pns) <= MaxPartsPerPage
     /\ after # {} => reply.pns # {}
     /\ reply.truncated <=> reply.pns # after
     /\ reply.truncated => \A p \in reply.pns : reply.next >= p
     /\ reply.truncated => reply.next \in reply.pns

\* for (const part of listResponse.Parts || []) { ... }
FoldPage(req, reply) ==
  [req EXCEPT
     !.etagLookup = @ \cup {<<pn, ListedEtag(reply, pn)>> : pn \in {p \in reply.pns : ~LookupHas(@, p)}},
     !.remaining = @ \ reply.pns,
     !.listed = @ \cup reply.pns,
     !.honest = @ /\ HonestPage(req.marker, reply),
     !.page = [truncated |-> reply.truncated, next |-> reply.next]]

\* Mutant of LoopsAgain: the loop asks for the next page of a truncated
\* listing whether or not a part is still missing.
LoopsWhileTruncated(req, reply) ==
  /\ reply.truncated
  /\ reply.next # NoMarker

\* Does the loop go round again after this page?
LoopsAgain(req, reply) ==
  /\ reply.truncated
  /\ reply.next # NoMarker
  /\ FoldPage(req, reply).remaining # {}

ListCalls(req) == Len(SelectSeq(req.calls, LAMBDA c : c.op = "ListParts"))

\* The store answers the pending ListParts call with a page.
CompleteListReply ==
  /\ h.route = "complete" /\ h.pc = "list"
  /\ upl = "open"
  /\ \E pns \in SUBSET stored, truncated \in BOOLEAN :
       \E bare \in SUBSET pns, next \in IF truncated THEN {NoMarker} \cup PartNumbers ELSE {NoMarker} :
         LET reply == Page(pns, bare, truncated, next)
             folded == FoldPage(h, reply)
         IN IF LoopsAgain(h, reply)
            THEN /\ ListCalls(h) < MaxListCalls
                 /\ h' = SendListParts([folded EXCEPT !.marker = reply.next])
            ELSE h' = AfterLoop(folded)
  /\ failed' = NoteOutcome(h', upl)
  /\ UNCHANGED <<upl, stored, object>>
  /\ UNCHANGED outside

\* The store rejects the pending call (no such upload, throttling, network):
\* sendS3Command rethrows and the error middleware answers.
CompleteListFails ==
  /\ h.route = "complete" /\ h.pc = "list"
  /\ \E code \in StoreErrorCodes :
       /\ upl # "open" => code = 404
       /\ h' = RespondRejected(h, code)
  /\ failed' = NoteOutcome(h', upl)
  /\ UNCHANGED <<upl, stored, object>>
  /\ UNCHANGED outside

\* ---- the store's answer to CompleteMultipartUpload
StrictlyAscending(ps) == \A i \in 1..(Len(ps) - 1) : ps[i].PartNumber < ps[i + 1].PartNumber
FinalizeCall(req) == req.calls[Len(req.calls)]

\* The store commits the upload; the handler triggers the webhook and answers.
CompleteFinalizeOk ==
  /\ h.route = "complete" /\ h.pc = "finalize"
  /\ upl = "open"
  /\ Len(FinalizeCall(h).parts) > 0 /\ StrictlyAscending(FinalizeCall(h).parts)
  /\ upl' = "completed"
  /\ object' = FinalizeCall(h).parts
  /\ \E webhookDue \in BOOLEAN :
       h' = [Respond(h, 200, ResultBody("completed")) EXCEPT
               !.webhook = IF webhookDue THEN "sent" ELSE "none"]
  /\ failed' = NoteOutcome(h', upl')
  /\ UNCHANGED stored
  /\ UNCHANGED outside

\* The webhook's answer to the POST the handler did not wait for: fetch
\* resolves with an OK or a non-OK response, or rejects. The response of the
\* complete request was written before.
WebhookOutcomes == {"ok", "non-OK", "failed"}
WebhookAnswers ==
  /\ h.pc = "done" /\ h.webhook = "sent"
  /\ \E outcome \in WebhookOutcomes : h' = [h EXCEPT !.webhook = outcome]
  /\ UNCHANGED <<upl, stored, object, failed>>
  /\ UNCHANGED outside

\* Mutant of CompleteFinalizeFails: the webhook is triggered for a rejected
\* finalize call too.
CompleteFinalizeFailsNotifies ==
  /\ h.route = "complete" /\ h.pc = "finalize"
  /\ \E code \in StoreErrorCodes \cup {400} :
       /\ upl # "open" => code = 404
       /\ h' = [RespondRejected(h, code) EXCEPT !.webhook = "sent"]
  /\ failed' = NoteOutcome(h', upl)
  /\ UNCHANGED <<upl, stored, object>>
  /\ UNCHANGED outside

\* Mutant of CompleteFinalizeFails: a rejected finalize call is sent once more.
CompleteFinalizeResent ==
  /\ h.route = "complete" /\ h.pc = "finalize"
  /\ Len(h.calls) < MaxListCalls + 2
  /\ h' = [h EXCEPT !.calls = Append(@, FinalizeCall(h))]
  /\ UNCHANGED <<upl, stored, object, failed>>
  /\ UNCHANGED outside

\* Mutant of CompleteFinalizeFails: the handler cleans up after a rejected
\* finalize call by aborting the upload itself.
CompleteFinalizeCleansUp ==
  /\ h.route = "complete" /\ h.pc = "finalize"
  /\ \E code \in StoreErrorCodes \cup {400} :
       /\ upl # "open" => code = 404
       /\ h' = RespondThrown([h EXCEPT !.calls = Append(@,
                 Call("AbortMultipartUpload", h.key.s, h.uploadId.s, <<>>))], code)
  /\ upl' = IF upl = "open" THEN "aborted" ELSE upl
  /\ stored' = IF upl = "open" THEN {} ELSE stored
  /\ failed' = NoteOutcome(h', upl')
  /\ UNCHANGED object
  /\ UNCHANGED outside

\* Mutant of CompleteFinalizeFails: the rejection is swallowed and the request
\* is answered as if the store had committed.
CompleteFinalizeSwallowed ==
  /\ h.route = "complete" /\ h.pc = "finalize"
  /\ upl # "completed"
  /\ h' = Respond(h, 200, ResultBody("completed"))
  /\ failed' = NoteOutcome(h', upl)
  /\ UNCHANGED <<upl, stored, object>>
  /\ UNCHANGED outside

\* The store rejects the finalize call, or the upload is not there to be
\* finalized: sendS3Command rethrows and the error middleware answers.
CompleteFinalizeFails ==
  /\ h.route = "complete" /\ h.pc = "finalize"
  /\ \E code \in StoreErrorCodes \cup {400} :
       /\ upl # "open" => code = 404
       /\ h' = RespondRejected(h, code)
  /\ failed' = NoteOutcome(h', upl)
  /\ UNCHANGED <<upl, stored, object>>
  /\ UNCHANGED outside

\* ------------------------------------------------------------ the browser
\* The browser PUTs a part to a signed URL: the store lists it from then on.
\* It asks to complete only once its transfers have ended (step 5 of the flow),
\* so no part arrives while a request is being handled.
PutPart ==
  /\ upl = "open"
  /\ h.pc = "idle"
  /\ \E pn \in PartNumbers \ stored : stored' = stored \cup {pn}
  /\ UNCHANGED <<h, upl, object, failed>>
  /\ UNCHANGED outside

\* --------------------------------------------------- POST /api/create-multipart
\* The store's answers to CreateMultipartUpload: a new upload and its UploadId,
\* a reply that lacks the UploadId, or an error. The store of the model has
\* the one upload id to give.
CreateReplies ==
  (IF upl = "none" THEN {[ok |-> TRUE, uploadId |-> TheUploadId, code |-> 0, upl |-> "open"]} ELSE {})
    \cup {[ok |-> TRUE, uploadId |-> u, code |-> 0, upl |-> upl] : u \in {Undef, Str(<<>>)}}
    \cup {[ok |-> FALSE, uploadId |-> Undef, code |-> c, upl |-> upl] : c \in StoreErrorCodes}

\* Mutant of CreateEnd: the session is returned whatever the reply holds.
CreateEndUnchecked(sent, UploadId) ==
  Respond([sent EXCEPT !.replyUploadId = UploadId, !.uploadId = UploadId, !.answerKey = sent.key],
          201, ResultBody("session"))

\* The handler after its await: response.UploadId is the reply's upload id,
\* objectKey is the request's key.
CreateEnd(sent, UploadId) ==
  LET got == [sent EXCEPT !.replyUploadId = UploadId]
  IN IF ~Truthy(UploadId) THEN RespondThrown(got, 0)
     ELSE Respond([got EXCEPT !.uploadId = UploadId, !.answerKey = sent.key], 201, ResultBody("session"))

CreateMultipart ==
  /\ CanStart
  /\ \E key \in Keys :
       LET req == [Idle EXCEPT !.route = "create", !.key = key]
           sent == [req EXCEPT !.calls = Append(@, Call("CreateMultipartUpload", key.s, <<>>, <<>>))]
       IN IF ~Truthy(key) \/ key.t # "string"
          THEN h' = Respond(req, 400, ErrorBody("key is required")) /\ UNCHANGED upl
          ELSE IF startsWithSlash(key.s) \/ containsTraversal(key.s)
          THEN h' = Respond(req, 400, ErrorBody("Invalid key")) /\ UNCHANGED upl
          ELSE \E r \in CreateReplies :
                 /\ upl' = r.upl
                 /\ h' = IF ~r.ok THEN RespondRejected(sent, r.code)
                         ELSE CreateEnd(sent, r.uploadId)
  /\ UNCHANGED <<stored, object, failed>>
  /\ UNCHANGED outside

\* ---------------------------------------------------------- POST /api/sign-part
Absent == {Undef, Null}     \* partNumber === undefined || partNumber === null
SignPartNumbers ==
  Absent \cup {Num(k) : k \in -1..MaxPartNumber}
    \cup { NumLit(<<"1", ".", "5">>), Str(<<"1">>), Str(<<" ", "2">>), Str(<<"1", ".", "0">>),
           Str(<<"k">>), Str(<<>>), Bool(TRUE), Bool(FALSE), Arr, ArrOf(<<"1">>), Obj }

\* Mutant of SignPartEnd: the handler asks the store for the upload's parts
\* before it signs.
SignPartEndAsksStore(req) ==
  LET partNum == ToNumber(req.partNumber)
      asked == [req EXCEPT !.calls = Append(@, Call("ListParts", req.key.s, req.uploadId.s, <<>>))]
  IN IF ~isInteger(partNum) \/ NotAboveZero(partNum)
     THEN Respond(req, 400, ErrorBody("partNumber must be a positive integer"))
     ELSE Respond([asked EXCEPT !.signed = partNum.whole], 200, ResultBody("url"))

\* The handler from Number(partNumber) on: the UploadPartCommand is signed
\* locally, with no call to the store.
SignPartEnd(req) ==
  LET partNum == ToNumber(req.partNumber)
  IN IF ~isInteger(partNum) \/ NotAboveZero(partNum)
     THEN Respond(req, 400, ErrorBody("partNumber must be a positive integer"))
     ELSE Respond([req EXCEPT !.signed = partNum.whole], 200, ResultBody("url"))

SignPart ==
  /\ CanStart
  /\ \E key \in Keys, uploadId \in UploadIdValues, partNumber \in SignPartNumbers :
       LET req == [Idle EXCEPT !.route = "sign", !.key = key, !.uploadId = uploadId,
                               !.partNumber = partNumber]
       IN h' = IF ~Truthy(key) \/ ~Truthy(uploadId) \/ partNumber \in Absent
               THEN Respond(req, 400, ErrorBody("key, uploadId and partNumber are required"))
               ELSE IF KeyCheck(key) = "throw" THEN RespondThrown(req, 0)
               ELSE IF KeyCheck(key) = "invalid" THEN Respond(req, 400, ErrorBody("Invalid key"))
               ELSE SignPartEnd(req)
  /\ UNCHANGED <<upl, stored, object, failed>>
  /\ UNCHANGED outside

\* ----------------------------------------------------- POST /api/abort-multipart
\* The store's answers to AbortMultipartUpload: an open upload is aborted and
\* its parts are gone, or the call fails and nothing changes; an aborted one
\* is acknowledged again or reported missing; any other is reported missing.
AbortReplies ==
  IF upl = "open"
  THEN {[ok |-> TRUE, code |-> 0, upl |-> "aborted", stored |-> {}]}
         \cup {[ok |-> FALSE, code |-> c, upl |-> upl, stored |-> stored] : c \in {0, 503}}
  ELSE (IF upl = "aborted" THEN {[ok |-> TRUE, code |-> 0, upl |-> upl, stored |-> stored]} ELSE {})
         \cup {[ok |-> FALSE, code |-> 404, upl |-> upl, stored |-> stored]}

\* The handler from its first line to its await.
AbortBegin(key, uploadId) ==
  LET req == [Idle EXCEPT !.route = "abort", !.key = key, !.uploadId = uploadId]
  IN IF ~Truthy(key) \/ ~Truthy(uploadId)
     THEN Respond(req, 400, ErrorBody("key and uploadId are required"))
     ELSE IF KeyCheck(key) = "throw" THEN RespondThrown(req, 0)
     ELSE IF KeyCheck(key) = "invalid" THEN Respond(req, 400, ErrorBody("Invalid key"))
     ELSE [req EXCEPT !.pc = "abort",
                      !.calls = Append(@, Call("AbortMultipartUpload", key.s, uploadId.s, <<>>))]

AbortEnd(sent, r) ==
  IF r.ok THEN Respond(sent, 200, ResultBody("ok")) ELSE RespondRejected(sent, r.code)

AbortMultipart ==
  /\ CanStart
  /\ \E key \in Keys, uploadId \in UploadIdValues :
       LET sent == AbortBegin(key, uploadId)
       IN IF sent.pc = "done"
          THEN h' = sent /\ UNCHANGED <<upl, stored>>
          ELSE \E r \in AbortReplies :
                 h' = AbortEnd(sent, r) /\ upl' = r.upl /\ stored' = r.stored
  /\ failed' = NoteOutcome(h', upl')
  /\ UNCHANGED object
  /\ UNCHANGED outside

\* An abort request for the upload handled while a complete request is
\* pending: the same handler, of which the store keeps the only trace.
AbortDuringComplete ==
  /\ h.pc \in {"list", "finalize"}
  /\ AbortBegin(ValidKey, TheUploadId).pc = "abort"
  /\ \E r \in AbortReplies : upl' = r.upl /\ stored' = r.stored
  /\ UNCHANGED <<h, object, failed>>
  /\ UNCHANGED outside

Next ==
  \/ CompleteStart
  \/ CompleteListReply
  \/ CompleteListFails
  \/ CompleteFinalizeOk
  \/ CompleteFinalizeFails
  \/ WebhookAnswers
  \/ Finish
  \/ CreateMultipart
  \/ SignPart
  \/ AbortMultipart
  \/ AbortDuringComplete
  \/ PutPart

Spec == Init /\ [][Next]_vars

\* ---- the listing loop without the cap of the call log
\* Once the log holds MaxListCalls listing calls the loop of the program still
\* goes round for every page that asks for it; the log keeps the first
\* MaxListCalls calls only.
CompleteListRepeats ==
  /\ h.route = "complete" /\ h.pc = "list"
  /\ upl = "open"
  /\ ListCalls(h) = MaxListCalls
  /\ \E pns \in SUBSET stored, next \in PartNumbers :
       \E bare \in SUBSET pns :
         LET reply == Page(pns, bare, TRUE, next)
         IN /\ LoopsAgain(h, reply)
            /\ h' = [FoldPage(h, reply) EXCEPT !.marker = reply.next]
  /\ failed' = NoteOutcome(h', upl)
  /\ UNCHANGED <<upl, stored, object>>
  /\ UNCHANGED outside

NextLive ==
  \/ Next
  \/ CompleteListRepeats

\* Every ListParts call is answered: with a page or with an error.
ListAnswered == CompleteListReply \/ CompleteListRepeats \/ CompleteListFails
SpecLive == Init /\ [][NextLive]_vars /\ WF_vars(ListAnswered)

\* ======================================================== the process start
\* Strings of the environment are sequences of characters; an endpoint is
\* written with one element per piece of the URL that the parser tells apart.

HETZNER_ENDPOINT_SUFFIX == <<".", "your-objectstorage", ".", "com">>
\* A package version: major.minor.patch, with or without a prerelease tag.
Version(major, minor, patch, pre) == [major |-> major, minor |-> minor, patch |-> patch, pre |-> pre]
HETZNER_MIN_INCOMPATIBLE_VERSION == Version(3, 729, 0, FALSE)

\* ---- new URL(endpoint).hostname
Schemes == {"https://", "http://"}
LowerOf == ("FSN1" :> "fsn1") @@ ("YOUR-OBJECTSTORAGE" :> "your-objectstorage") @@ ("COM" :> "com")
toLowerCase(cs) == [i \in 1..Len(cs) |-> IF cs[i] \in DOMAIN LowerOf THEN LowerOf[cs[i]] ELSE cs[i]]
\* The host runs from the scheme to the port, the path, the query or the end.
HostLen(cs) ==
  LET stops == {i \in 1..Len(cs) : cs[i] \in {":", "/", "?", "#"}}
  IN IF stops = {} THEN Len(cs) ELSE (CHOOSE i \in stops : \A j \in stops : i <= j) - 1
\* The parser strips the blanks around its input, throws without a scheme or
\* without a host, and lower-cases the host.
URLhostname(cs) ==
  LET t == Trim(cs)
  IN IF Len(t) = 0 \/ t[1] \notin Schemes
     THEN [throws |-> TRUE, hostname |-> <<>>]
     ELSE LET rest == Tail(t)
              host == SubSeq(rest, 1, HostLen(rest))
          IN IF host = <<>> THEN [throws |-> TRUE, hostname |-> <<>>]
             ELSE [throws |-> FALSE, hostname |-> toLowerCase(host)]

getEndpointHost(endpoint) ==
  IF endpoint.t # "string" \/ Len(Trim(endpoint.s)) = 0 THEN Null
  ELSE IF URLhostname(endpoint.s).throws THEN Null
  ELSE Str(URLhostname(endpoint.s).hostname)

\* Mutant of endsWith: the suffix is looked for anywhere in the host.
includesAnywhere(cs, suffix) ==
  \E i \in 1..Len(cs) : i + Len(suffix) - 1 <= Len(cs) /\ SubSeq(cs, i, i + Len(suffix) - 1) = suffix

endsWith(cs, suffix) ==
  Len(suffix) <= Len(cs) /\ SubSeq(cs, Len(cs) - Len(suffix) + 1, Len(cs)) = suffix

isHetznerEndpoint(endpoint) ==
  LET host == getEndpointHost(endpoint)
  IN IF host.t = "string" THEN endsWith(host.s, HETZNER_ENDPOINT_SUFFIX) ELSE FALSE

\* ---- semver.gte
compareIdentifiers(a, b) == IF a = b THEN 0 ELSE IF a < b THEN -1 ELSE 1
compareMain(a, b) ==
  IF compareIdentifiers(a.major, b.major) # 0 THEN compareIdentifiers(a.major, b.major)
  ELSE IF compareIdentifiers(a.minor, b.minor) # 0 THEN compareIdentifiers(a.minor, b.minor)
  ELSE compareIdentifiers(a.patch, b.patch)
\* A version with a prerelease tag comes before the same version without one.
comparePre(a, b) ==
  IF a.pre /\ ~b.pre THEN -1 ELSE IF ~a.pre /\ b.pre THEN 1 ELSE 0
compare(a, b) == IF compareMain(a, b) # 0 THEN compareMain(a, b) ELSE comparePre(a, b)
gte(a, b) == compare(a, b) >= 0

\* The guard: what it returns, and whether it ends the process.
ensureHetznerCompatibleSdk(endpoint, version) ==
  LET endpointHost == getEndpointHost(endpoint)
      hetzner == IF Truthy(endpointHost) THEN endsWith(endpointHost.s, HETZNER_ENDPOINT_SUFFIX) ELSE FALSE
  IN [exits |-> hetzner /\ gte(version, HETZNER_MIN_INCOMPATIBLE_VERSION),
      version |-> version, endpointHost |-> endpointHost, isHetzner |-> hetzner]

\* ---- the endpoints and versions a deployment may have
HetznerHost == <<"fsn1", ".", "your-objectstorage", ".", "com">>
OtherHost == <<"s3", ".", "amazonaws", ".", "com">>
Endpoints ==
  { Undef, Str(<<>>), Str(<<" ">>),
    Str(<<"https://">> \o HetznerHost),
    Str(<<" ", "http://">> \o HetznerHost \o <<":", "443", "/", "bucket">>),
    Str(<<"https://", "FSN1", ".", "YOUR-OBJECTSTORAGE", ".", "COM">>),
    Str(HetznerHost),
    Str(<<"https://">>),
    Str(<<"https://", "your-objectstorage", ".", "com">>),
    Str(<<"https://">> \o HetznerHost \o <<".">>),
    Str(<<"https://">> \o OtherHost),
    Str(<<"https://">> \o HetznerHost \o <<".", "evil", ".", "org">>),
    Str(<<"https://">> \o OtherHost \o <<"/">> \o HetznerHost) }
Versions ==
  { Version(major, minor, patch, pre) :
      major \in {2, 3, 4}, minor \in {0, 726, 729, 730}, patch \in {0, 1}, pre \in BOOLEAN }

parsePositiveInteger(value, fallback) ==
  IF value.t # "string" \/ Len(Trim(value.s)) = 0 THEN fallback
  ELSE IF ~isFinite(Number(value.s)) \/ NotAboveZero(Number(value.s)) THEN fallback
  ELSE floor(Number(value.s))

MIN_PART_SIZE == Finite(FALSE, 5 * 1024 * 1024, FALSE)
DEFAULT_PART_SIZE == Finite(FALSE, 8 * 1024 * 1024, FALSE)
DEFAULT_CONCURRENCY == Finite(FALSE, 4, FALSE)

\* Mutant of uploadConfig: the configured part size is taken without the floor
\* of the store's minimum.
uploadConfigNoMinimum(partSizeEnv, concurrencyEnv) ==
  [partSizeBytes |-> parsePositiveInteger(partSizeEnv, DEFAULT_PART_SIZE),
   maxConcurrency |-> parsePositiveInteger(concurrencyEnv, DEFAULT_CONCURRENCY)]

uploadConfig(partSizeEnv, concurrencyEnv) ==
  LET configuredPartSize == parsePositiveInteger(partSizeEnv, DEFAULT_PART_SIZE)
  IN [partSizeBytes |-> max(configuredPartSize, MIN_PART_SIZE),
      maxConcurrency |-> parsePositiveInteger(concurrencyEnv, DEFAULT_CONCURRENCY)]

\* ---- the values the two variables may have
MaxEnvLen == 3
EnvChars == {" ", "-", ".", "0", "1", "k"}
EnvValues ==
  {Undef} \cup {Str(cs) : cs \in SeqsUpTo(EnvChars, MaxEnvLen)}
    \cup { Str(<<"5", "2", "4", "2", "8", "7", "9">>), Str(<<"5", "2", "4", "2", "8", "8", "0">>),
           Str(<<"5", "2", "4", "2", "8", "8", "0", ".", "5">>), Str(<<"9", "0", "0", "0", "0", "0", "0">>),
           Str(<<"+", "7">>), Str(<<"Infinity">>), Str(<<"-", "Infinity">>), Str(<<"1", ".", "5", ".", "1">>) }

\* ---- the process, from its start to its listening
PinnedVersion == Version(3, 726, 1, FALSE)
NoConfig == [partSizeBytes |-> NaN, maxConcurrency |-> NaN]
Starting(endpoint, version, partSizeEnv, concurrencyEnv) ==
  [pc |-> "start", endpoint |-> endpoint, version |-> version,
   partSizeEnv |-> partSizeEnv, concurrencyEnv |-> concurrencyEnv,
   config |-> NoConfig, endpointHost |-> Null, isHetzner |-> FALSE,
   exit |-> "none", answer |-> NoConfig]
\* Every endpoint with every version, and every value of each of the two
\* variables.
BootInputs ==
  {Starting(e, v, Undef, Undef) : e \in Endpoints, v \in Versions}
    \cup {Starting(Str(<<"https://">> \o OtherHost), PinnedVersion, p, Undef) : p \in EnvValues}
    \cup {Starting(Str(<<"https://">> \o OtherHost), PinnedVersion, Undef, c) : c \in EnvValues}

InitBoot ==
  /\ h = Idle /\ upl = "none" /\ stored = {} /\ object = <<>> /\ failed = FALSE
  /\ client = NoClient
  /\ boot \in BootInputs

\* S3_ENDPOINT is one of the required variables: the process exits without it.
CheckRequiredEnv ==
  /\ boot.pc = "start"
  /\ boot' = IF boot.endpoint.t # "string" \/ Len(Trim(boot.endpoint.s)) = 0
             THEN [boot EXCEPT !.pc = "exited", !.exit = "missing env"]
             ELSE [boot EXCEPT !.pc = "config"]
  /\ UNCHANGED <<served, client>>

ResolveUploadConfig ==
  /\ boot.pc = "config"
  /\ boot' = [boot EXCEPT !.pc = "guard",
                          !.config = uploadConfig(boot.partSizeEnv, boot.concurrencyEnv)]
  /\ UNCHANGED <<served, client>>

\* Mutant of EnsureCompatibleSdk: the incompatibility is found and the process
\* goes on.
EnsureCompatibleSdkGoesOn ==
  /\ boot.pc = "guard"
  /\ LET g == ensureHetznerCompatibleSdk(boot.endpoint, boot.version)
     IN boot' = [boot EXCEPT !.pc = "listen",
                             !.endpointHost = g.endpointHost, !.isHetzner = g.isHetzner]
  /\ UNCHANGED <<served, client>>

EnsureCompatibleSdk ==
  /\ boot.pc = "guard"
  /\ LET g == ensureHetznerCompatibleSdk(boot.endpoint, boot.version)
     IN boot' = IF g.exits
                THEN [boot EXCEPT !.pc = "exited", !.exit = "incompatible sdk",
                                  !.endpointHost = g.endpointHost, !.isHetzner = g.isHetzner]
                ELSE [boot EXCEPT !.pc = "listen",
                                  !.endpointHost = g.endpointHost, !.isHetzner = g.isHetzner]
  /\ UNCHANGED <<served, client>>

Listen ==
  /\ boot.pc = "listen"
  /\ boot' = [boot EXCEPT !.pc = "listening"]
  /\ UNCHANGED <<served, client>>

\* GET /api/upload-config
GetUploadConfig ==
  /\ boot.pc = "listening" /\ boot.answer = NoConfig
  /\ boot' = [boot EXCEPT !.answer = boot.config]
  /\ UNCHANGED <<served, client>>

NextBoot ==
  \/ CheckRequiredEnv
  \/ ResolveUploadConfig
  \/ EnsureCompatibleSdk
  \/ Listen
  \/ GetUploadConfig

SpecBoot == InitBoot /\ [][NextBoot]_vars

\* ============================================================== the browser
\* The Part Scheduler's division of a file and the Session Tracker's record of
\* completion tokens.
MaxFileSize == 6        \* largest file, in bytes
MaxPartSize == 3        \* largest part size, in bytes
Tokens == {"a", "b"}

\* ---- Part Scheduler: the part boundaries
totalParts(fileSize, partSize) == (fileSize + partSize - 1) \div partSize
\* Mutant of lastPartSize: the remainder is taken as it is, zero included.
lastPartSizeRemainder(fileSize, partSize) == fileSize % partSize

\* The last part is fileSize mod partSize, or partSize if that remainder is zero.
lastPartSize(fileSize, partSize) ==
  IF fileSize % partSize = 0 THEN partSize ELSE fileSize % partSize
partAt(number, fileSize, partSize) ==
  [number |-> number,
   size |-> IF number < totalParts(fileSize, partSize) THEN partSize
            ELSE lastPartSize(fileSize, partSize)]

\* ---- Session Tracker: part numbers with their completion tokens
NoToken == ""
tokenOf(tracker, k) ==
  IF \E e \in tracker : e.PartNumber = k
  THEN (CHOOSE e \in tracker : e.PartNumber = k).ETag
  ELSE NoToken
\* Mutant of record: a part already recorded keeps its first token.
recordFirstWins(tracker, k, t) ==
  IF \E e \in tracker : e.PartNumber = k THEN tracker
  ELSE tracker \cup {[PartNumber |-> k, ETag |-> t]}

\* record(partNumber, token): the part's entry is replaced.
record(tracker, k, t) ==
  {e \in tracker : e.PartNumber # k} \cup {[PartNumber |-> k, ETag |-> t]}
\* Mutant of isComplete: only the last part is looked at.
isCompleteLastPart(tracker, total) == tokenOf(tracker, total) # NoToken

\* isComplete(): every part number in [1, totalParts] has a recorded token.
isComplete(tracker, total) == \A k \in 1..total : tokenOf(tracker, k) # NoToken
\* snapshot(): the recorded parts in ascending part number.
RECURSIVE snapshot(_)
snapshot(tracker) ==
  IF tracker = {} THEN <<>>
  ELSE LET first == CHOOSE e \in tracker : \A o \in tracker : e.PartNumber <= o.PartNumber
       IN <<first>> \o snapshot(tracker \ {first})

\* ---- one upload in the browser
NoRecord == [k |-> 0, t |-> NoToken, was |-> NoToken]
InitClient ==
  /\ h = Idle /\ upl = "none" /\ stored = {} /\ object = <<>> /\ failed = FALSE
  /\ boot = Listening
  /\ \E fileSize \in 1..MaxFileSize, partSize \in 1..MaxPartSize :
       client = [pc |-> "plan", fileSize |-> fileSize, partSize |-> partSize,
                 parts |-> <<>>, tracker |-> {}, op |-> NoRecord, complete |-> FALSE]

\* The scheduler lays out the next part.
PlanPart ==
  /\ client.pc = "plan"
  /\ Len(client.parts) < totalParts(client.fileSize, client.partSize)
  /\ client' = [client EXCEPT
                  !.parts = Append(@, partAt(Len(@) + 1, client.fileSize, client.partSize))]
  /\ UNCHANGED <<served, boot>>

\* Every part is laid out: the transfers begin.
StartTransfers ==
  /\ client.pc = "plan"
  /\ Len(client.parts) = totalParts(client.fileSize, client.partSize)
  /\ client' = [client EXCEPT !.pc = "transfer",
                                !.complete = isComplete(client.tracker, Len(client.parts))]
  /\ UNCHANGED <<served, boot>>

\* A part's transfer is confirmed with a token, for the first time or again;
\* op keeps the operation and the token the part had before it, complete what
\* isComplete() answers after it.
Record ==
  /\ client.pc = "transfer"
  /\ \E k \in 1..Len(client.parts), t \in Tokens :
       client' = [client EXCEPT
                    !.tracker = record(@, k, t),
                    !.op = [k |-> k, t |-> t, was |-> tokenOf(client.tracker, k)],
                    !.complete = isComplete(record(client.tracker, k, t), Len(client.parts))]
  /\ UNCHANGED <<served, boot>>

NextClient ==
  \/ PlanPart
  \/ StartTransfers
  \/ Record

SpecClient == InitClient /\ [][NextClient]_vars

\* ---- Part Scheduler: the pool of part transfers
\* Each part is pending, has a worker asking for its signed URL ("signing") or
\* transferring its bytes ("transferring"), waits for another attempt after a
\* refused signed-URL request ("refused") or a failed transfer ("dropped"), or
\* has its token recorded ("recorded").
MaxTotalParts == 3      \* most parts a file is divided into
MaxWorkers == 2         \* largest maxConcurrency the server may configure
maxRetries == 2         \* retries of one part before the upload is marked failed

InFlight == {"signing", "transferring"}
Waiting == {"pending", "refused", "dropped"}
busy(c) == {k \in 1..c.total : c.phase[k] \in InFlight}

InitPool ==
  /\ h = Idle /\ upl = "none" /\ stored = {} /\ object = <<>> /\ failed = FALSE
  /\ boot = Listening
  /\ \E total \in 1..MaxTotalParts, limit \in 1..MaxWorkers :
       client = [pc |-> "upload", total |-> total, maxConcurrency |-> limit,
                 phase |-> [k \in 1..total |-> "pending"],
                 failures |-> [k \in 1..total |-> 0],
                 tracker |-> {}, resumed |-> "no"]

\* Mutant of StartPart: a worker is found for the part however many are busy.
StartPartUnbounded ==
  /\ client.pc = "upload"
  /\ \E k \in 1..client.total :
       /\ client.phase[k] \in Waiting
       /\ client' = [client EXCEPT !.phase[k] = "signing"]
  /\ UNCHANGED <<served, boot>>

\* A free worker takes a part that waits and asks for its signed URL.
StartPart ==
  /\ client.pc = "upload"
  /\ Cardinality(busy(client)) < client.maxConcurrency
  /\ \E k \in 1..client.total :
       /\ client.phase[k] \in Waiting
       /\ client' = [client EXCEPT !.phase[k] = "signing"]
  /\ UNCHANGED <<served, boot>>

\* The signed URL arrives: the transfer of the part starts.
SignedUrlGranted ==
  /\ client.pc = "upload"
  /\ \E k \in 1..client.total :
       /\ client.phase[k] = "signing"
       /\ client' = [client EXCEPT !.phase[k] = "transferring"]
  /\ UNCHANGED <<served, boot>>

\* An attempt of part k failed: the part waits for its next attempt, or, its
\* retries used up, the upload is marked failed and the workers stop.
attemptFailed(c, k, waits) ==
  IF c.failures[k] < maxRetries
  THEN [c EXCEPT !.failures[k] = @ + 1, !.phase[k] = waits]
  ELSE [c EXCEPT !.pc = "failed", !.failures[k] = @ + 1,
                 !.phase = [j \in 1..c.total |->
                              IF j = k THEN waits
                              ELSE IF c.phase[j] \in InFlight THEN "pending"
                              ELSE c.phase[j]]]

\* The signed-URL request of a part fails.
SignedUrlFails ==
  /\ client.pc = "upload"
  /\ \E k \in 1..client.total :
       /\ client.phase[k] = "signing"
       /\ client' = attemptFailed(client, k, "refused")
  /\ UNCHANGED <<served, boot>>

\* The store confirms a part with a token: the Tracker records it.
TransferDone ==
  /\ client.pc = "upload"
  /\ \E k \in 1..client.total, t \in Tokens :
       /\ client.phase[k] = "transferring"
       /\ client' = [client EXCEPT !.phase[k] = "recorded",
                                   !.tracker = record(@, k, t)]
  /\ UNCHANGED <<served, boot>>

\* A part transfer fails (network error, non-success status).
TransferFails ==
  /\ client.pc = "upload"
  /\ \E k \in 1..client.total :
       /\ client.phase[k] = "transferring"
       /\ client' = attemptFailed(client, k, "dropped")
  /\ UNCHANGED <<served, boot>>

\* All parts are confirmed: the scheduler asks the server to finalize.
RequestFinalize ==
  /\ client.pc = "upload"
  /\ isComplete(client.tracker, client.total)
  /\ client' = [client EXCEPT !.pc = "finalize"]
  /\ UNCHANGED <<served, boot>>

\* What is left to transfer when the upload is tried again.
resumedPhases(tracker, total) ==
  [k \in 1..total |-> IF tokenOf(tracker, k) # NoToken THEN "recorded" ELSE "pending"]
\* Mutant of RetryUpload: every part is transferred again.
RetryUploadFromScratch ==
  /\ client.pc = "failed"
  /\ client' = [client EXCEPT !.pc = "upload", !.resumed = "intact",
                              !.phase = [k \in 1..client.total |-> "pending"],
                              !.failures = [k \in 1..client.total |-> 0]]
  /\ UNCHANGED <<served, boot>>

\* The user retries the failed upload, with the Tracker as it was or lost.
RetryUpload ==
  /\ client.pc = "failed"
  /\ \E survived \in BOOLEAN :
       LET tracker == IF survived THEN client.tracker ELSE {}
       IN client' = [client EXCEPT !.pc = "upload",
                                   !.resumed = IF survived THEN "intact" ELSE "lost",
                                   !.tracker = tracker,
                                   !.phase = resumedPhases(tracker, client.total),
                                   !.failures = [k \in 1..client.total |-> 0]]
  /\ UNCHANGED <<served, boot>>

NextPool ==
  \/ StartPart
  \/ SignedUrlGranted
  \/ SignedUrlFails
  \/ TransferDone
  \/ TransferFails
  \/ RequestFinalize
  \/ RetryUpload

SpecPool == InitPool /\ [][NextPool]_vars

\* ================================================================= claims
\* What the claims say of a request is read off the request as it was sent
\* (h.key, h.uploadId, h.parts), the calls it made (h.calls) and its response.
Items == h.parts.items
EntryValid(i) == Items[i].pn.int /\ Items[i].pn.v >= 1
\* The token the client sent with entry i, blanks around it removed; <<>> when it sent none.
ClientToken(i) == IF Items[i].etag = PaddedEtag THEN <<"c">> ELSE <<>>
RequestedWithoutToken ==
  {Items[i].pn.v : i \in {j \in 1..Len(Items) : EntryValid(j) /\ ClientToken(j) = <<>>}}
DotDotAt(cs, i) == i + 1 <= Len(cs) /\ cs[i] = "." /\ cs[i + 1] = "."
TraversalSegment(cs) ==
  \E i \in 1..Len(cs) :
    /\ DotDotAt(cs, i)
    /\ (i = 1 \/ cs[i - 1] = "/")
    /\ (i + 1 = Len(cs) \/ cs[i + 2] = "/")
RootOrTraversal(cs) == (Len(cs) > 0 /\ cs[1] = "/") \/ TraversalSegment(cs)
\* A key the routes must not accept: no string, empty, rooted or traversing.
KeyInvalid(key) == key.t # "string" \/ key.s = <<>> \/ RootOrTraversal(key.s)

FinalizeCalls == SelectSeq(h.calls, LAMBDA c : c.op = "CompleteMultipartUpload")
AbortCalls == SelectSeq(h.calls, LAMBDA c : c.op = "AbortMultipartUpload")
LastCallIs(op) == h.calls # <<>> /\ h.calls[Len(h.calls)].op = op
\* The store rejected a ListParts call of the request.
ListRejected ==
  h.pc = "done" /\ h.body.error = "Internal server error" /\ LastCallIs("ListParts")
\* The store rejected the finalize call of the request.
FinalizeRejected ==
  h.pc = "done" /\ h.body.error = "Internal server error" /\ LastCallIs("CompleteMultipartUpload")
\* A complete request that passes validation: key, upload id, an array with a valid entry.
CompleteValidated ==
  /\ h.route = "complete"
  /\ ~KeyInvalid(h.key) /\ h.uploadId = TheUploadId
  /\ h.parts.isArray /\ \E i \in 1..Len(Items) : EntryValid(i)
\* Its listing loop has ended, and not by a rejected ListParts call.
LoopEnded == CompleteValidated /\ h.pc \in {"finalize", "done"} /\ ~ListRejected

NonDecreasing(ps) == \A i, j \in 1..Len(ps) : i < j => ps[i].PartNumber <= ps[j].PartNumber
Increasing(ps) == \A i, j \in 1..Len(ps) : i < j => ps[i].PartNumber < ps[j].PartNumber
AllTokens(ps) == \A i \in 1..Len(ps) : ps[i].ETag # <<>>
\* fp holds the requested entries one for one: entry i with the client's token, or
\* with the store's token of that part number when the client sent none.
OneForOne(fp) ==
  /\ Len(fp) = Len(Items)
  /\ \E f \in [1..Len(Items) -> 1..Len(Items)] :
       /\ \A i, j \in 1..Len(Items) : i # j => f[i] # f[j]
       /\ \A i \in 1..Len(Items) :
            fp[f[i]] = [PartNumber |-> Items[i].pn.v,
                        ETag |-> IF ClientToken(i) # <<>> THEN ClientToken(i)
                                 ELSE StoreEtag(Items[i].pn.v)]

\* C1: a complete request whose entries all have valid part numbers, some
\* without a token, against a store whose listing (paged as S3 pages it, over
\* any number of pages) holds a token for each of those part numbers, is
\* finalized with one entry per requested entry, the client's tokens kept and
\* the missing ones taken from the listing, every token non-empty, in
\* ascending order of part number.
C1_ReconciledFinalize ==
  ( /\ LoopEnded
    /\ \A i \in 1..Len(Items) : EntryValid(i)
    /\ RequestedWithoutToken # {}
    /\ RequestedWithoutToken \subseteq stored
    /\ h.honest )
  => /\ Len(FinalizeCalls) = 1
     /\ OneForOne(FinalizeCalls[1].parts)
     /\ AllTokens(FinalizeCalls[1].parts)
     /\ NonDecreasing(FinalizeCalls[1].parts)

\* C1 witness: parts [{2}, {1, ' c'}], the token of part 2 found on the second
\* page, finalized as [{1, 'c'}, {2, 'e2'}].
C1_Witness ==
  /\ LoopEnded /\ h.pc = "done" /\ h.status = 200 /\ h.honest
  /\ Items = <<[pn |-> Whole(2), etag |-> Undef], [pn |-> Whole(1), etag |-> PaddedEtag]>>
  /\ ListCalls(h) = 2
  /\ FinalizeCalls = <<Call("CompleteMultipartUpload", ValidKey.s, TheUploadId.s,
                            <<[PartNumber |-> 1, ETag |-> <<"c">>],
                              [PartNumber |-> 2, ETag |-> StoreEtag(2)]>>)>>

\* C2: when the listing loop has ended and a part number requested without a
\* token was on no page, the request is answered 400 with an error naming
\* exactly those part numbers, and no finalize call was sent.
Unresolved == RequestedWithoutToken \ h.listed
C2_UnresolvedFails ==
  (LoopEnded /\ Unresolved # {})
  => /\ h.pc = "done" /\ h.status = 400
     /\ h.body.error = "Unable to resolve ETag for parts"
     /\ h.body.names = Unresolved
     /\ FinalizeCalls = <<>>

\* C2 witness: two pages listed part 1 only, part 2 was requested without a token.
C2_Witness ==
  /\ LoopEnded /\ h.pc = "done" /\ h.status = 400
  /\ ListCalls(h) = 2 /\ h.listed = {1}
  /\ RequestedWithoutToken = {1, 2} /\ h.body.names = {2}

\* C3 (as claimed): every finalize call sent carries strictly increasing part
\* numbers and a non-empty token in every entry.
C3_StrictlyIncreasingFinalize ==
  \A i \in 1..Len(FinalizeCalls) :
    Increasing(FinalizeCalls[i].parts) /\ AllTokens(FinalizeCalls[i].parts)

\* C4: a request of any of the four routes whose key is a string that begins
\* with '/' or has a '..' segment is answered 400, having made no store call
\* and signed nothing; and no call the server sends carries such a key.
C4_RootedOrTraversalKeyRejected ==
  /\ (h.route # "none" /\ h.key.t = "string" /\ RootOrTraversal(h.key.s))
       => (h.pc = "done" /\ h.status = 400 /\ h.calls = <<>> /\ h.body.result = "none")
  /\ \A i \in 1..Len(h.calls) : ~RootOrTraversal(h.calls[i].key)

\* C4 witness: an abort request for '../e' with an upload id, answered 400.
C4_Witness ==
  /\ h.route = "abort" /\ h.pc = "done" /\ h.status = 400
  /\ h.key = TraversalKey /\ h.uploadId = TheUploadId

\* C5 (as claimed): a request of any of the four routes whose key is invalid,
\* whatever its JSON type, is answered 4xx with a reason and makes no store call.
C5_InvalidKeyIs4xx ==
  (h.route # "none" /\ KeyInvalid(h.key))
  => /\ h.pc = "done" /\ h.status \in 400..499
     /\ h.body.error # "" /\ h.calls = <<>>

\* C6 (as claimed): a complete request whose parts array has an entry with a
\* part number that is no positive integer is answered 4xx and makes no store call.
C6_MalformedPartsRejected ==
  (h.route = "complete" /\ h.parts.isArray /\ \E i \in 1..Len(Items) : ~EntryValid(i))
  => (h.pc = "done" /\ h.status \in 400..499 /\ h.calls = <<>>)

\* C7: one complete request sends at most one finalize call, as its last
\* call: one when validation and reconciliation succeed, none when it is
\* answered with a validation or reconciliation error or a listing is
\* rejected; a rejected finalize call is not followed by another.
ValidationOrReconciliationErrors ==
  {"key, uploadId and parts array are required", "Invalid key",
   "parts array must include valid PartNumber values",
   "Unable to resolve ETag for parts", "Failed to normalize all multipart upload parts"}
C7_AtMostOneFinalize ==
  h.route = "complete" =>
    /\ Len(FinalizeCalls) <= 1
    /\ Len(FinalizeCalls) = 1 => LastCallIs("CompleteMultipartUpload")
    /\ (h.pc = "done" /\ h.status = 200) => Len(FinalizeCalls) = 1
    /\ (h.pc = "done" /\ h.body.error \in ValidationOrReconciliationErrors) => FinalizeCalls = <<>>
    /\ (h.pc = "done" /\ FinalizeCalls = <<>>) => (h.status >= 400 /\ h.body.result = "none")
    /\ (LoopEnded /\ Unresolved = {} /\ h.body.error # "Failed to normalize all multipart upload parts")
         => Len(FinalizeCalls) = 1

\* C7 witness: the store rejected the finalize call and the request ended with that one call.
C7_Witness ==
  /\ h.route = "complete" /\ FinalizeRejected /\ Len(FinalizeCalls) = 1
  /\ ListCalls(h) >= 1

\* ---- C8
\* A request of the given route is answered in this step.
Answered(route) == h.pc # "done" /\ h'.pc = "done" /\ h'.route = route
\* The single call of an answered abort request is the abort call for its key and upload.
ForwardedAbort(req) ==
  /\ Len(req.calls) = 1
  /\ req.calls[1].op = "AbortMultipartUpload"
  /\ req.calls[1].key = req.key.s /\ req.calls[1].uploadId = req.uploadId.s
\* An abort request that names the upload.
AbortNamesUpload(req) == req.route = "abort" /\ ~KeyInvalid(req.key) /\ req.uploadId = TheUploadId

\* C8: a complete request never sends an abort call; the step that answers a
\* failed complete request (validation, reconciliation, rejected listing or
\* rejected finalize) leaves the store's upload, parts and object as they were;
\* and an abort request made after such a failure is not refused by the server:
\* it is forwarded as exactly one abort call, answered with the success
\* acknowledgement when the store aborts the upload, and with the store's
\* failure otherwise.
C8_FailedCompleteLeavesUpload ==
  /\ [](h.route = "complete" => AbortCalls = <<>>)
  /\ [][(Answered("complete") /\ h'.status # 200)
          => (upl' = upl /\ stored' = stored /\ object' = object)]_vars
  /\ [][(failed /\ Answered("abort") /\ AbortNamesUpload(h'))
          => /\ upl = "open"
             /\ ForwardedAbort(h')
             /\ \/ h'.status = 200 /\ h'.body.result = "ok" /\ upl' = "aborted"
                \/ h'.status >= 500 /\ upl' = upl /\ stored' = stored]_vars

\* The store rejected a finalize call; the upload is open, its parts are kept,
\* and no abort call was made.
C8_Witness ==
  /\ h.route = "complete" /\ FinalizeRejected
  /\ upl = "open" /\ stored # {} /\ failed
  /\ AbortCalls = <<>>

\* ---- C9
\* C9: an abort request that names the upload sends exactly one abort call, and
\* one that repeats an abort the store has already carried out is answered
\* with the same success acknowledgement and leaves the store as it was.
C9_AbortIsIdempotent ==
  /\ [][(Answered("abort") /\ AbortNamesUpload(h')) => ForwardedAbort(h')]_vars
  /\ [][(Answered("abort") /\ AbortNamesUpload(h') /\ upl = "aborted")
          => /\ h'.status = 200 /\ h'.body.result = "ok"
             /\ upl' = upl /\ stored' = stored /\ object' = object]_vars

\* ---- C10
\* The session of the upload, as the store and the pending request show it.
Session ==
  IF upl = "none" THEN "NONE"
  ELSE IF upl = "completed" THEN "COMMITTED"
  ELSE IF upl = "aborted" THEN "ABORTED"
  ELSE IF h.route = "complete" /\ h.pc \in {"list", "finalize"} THEN "COMPLETING"
  ELSE IF failed THEN "FAILED"
  ELSE "INITIATED"

\* The step is an abort request that the store accepted, handled alone or
\* while a complete request is pending.
ExplicitAbort ==
  \/ Answered("abort") /\ AbortNamesUpload(h') /\ h'.status = 200 /\ ForwardedAbort(h')
  \/ h' = h /\ h.pc \in {"list", "finalize"}

\* INITIATED -> FAILED is a complete request refused on arrival.
StatedMoves ==
  { <<"NONE", "INITIATED">>,
    <<"INITIATED", "COMPLETING">>, <<"INITIATED", "FAILED">>,
    <<"COMPLETING", "COMMITTED">>, <<"COMPLETING", "FAILED">>,
    <<"INITIATED", "ABORTED">>, <<"COMPLETING", "ABORTED">> }
SessionMoves ==
  StatedMoves \cup { <<"FAILED", "COMPLETING">>, <<"FAILED", "ABORTED">> }

\* C10 as stated: ABORTED is entered only from INITIATED or COMPLETING.
C10_AbortedOnlyFromInitiatedOrCompleting ==
  [][(Session' = "ABORTED" /\ Session # "ABORTED")
       => Session \in {"INITIATED", "COMPLETING"}]_vars

\* C10, amended: the session follows INITIATED -> COMPLETING -> {COMMITTED |
\* FAILED}; FAILED is not terminal, a further complete request takes it to
\* COMPLETING again and an abort request takes it to ABORTED; ABORTED is entered
\* only by an explicit abort request the store accepted, from INITIATED,
\* COMPLETING or FAILED; a complete request answered with success means the
\* store committed exactly the part list of its finalize call; and once
\* COMMITTED, no step moves the session or changes the committed object.
C10_SessionMachine ==
  /\ []((h.route = "complete" /\ h.pc = "done" /\ h.status = 200)
          => (Session = "COMMITTED" /\ Len(FinalizeCalls) = 1 /\ object = FinalizeCalls[1].parts))
  /\ [][/\ Session' # Session => <<Session, Session'>> \in SessionMoves
        /\ (Session' = "ABORTED" /\ Session # "ABORTED") => ExplicitAbort
        /\ Session = "COMMITTED" => (Session' = "COMMITTED" /\ object' = object)]_vars

\* The upload is committed and a later abort request for it has been answered:
\* the store reported it missing and the session is still COMMITTED.
C10_Witness ==
  /\ Session = "COMMITTED" /\ object # <<>>
  /\ h.route = "abort" /\ h.pc = "done" /\ AbortNamesUpload(h)
  /\ ForwardedAbort(h) /\ h.status = 404

\* ---- C12
\* The host name of the configured endpoint ends with '.your-objectstorage.com'.
RestrictedHost ==
  LET host == getEndpointHost(boot.endpoint)
      n == Len(host.s)
  IN /\ host.t = "string" /\ n >= 4
     /\ host.s[n - 3] = "." /\ host.s[n - 2] = "your-objectstorage"
     /\ host.s[n - 1] = "." /\ host.s[n] = "com"
\* The client version is 3.729.0 or comes after it in version order.
AtOrAbove3_729_0 ==
  \/ boot.version.major > 3
  \/ boot.version.major = 3 /\ boot.version.minor > 729
  \/ boot.version.major = 3 /\ boot.version.minor = 729 /\ boot.version.patch > 0
  \/ boot.version.major = 3 /\ boot.version.minor = 729 /\ boot.version.patch = 0 /\ ~boot.version.pre
GuardRan == boot.pc \in {"listen", "listening"} \/ boot.exit = "incompatible sdk"

\* C12: once the guard has run, the process has been ended by it if and only
\* if the endpoint's host name ends with '.your-objectstorage.com' and the
\* client version is at or above 3.729.0; in every other case (the same host
\* with a lower version, another host, an endpoint that is no parseable URL)
\* the process goes on to listen.
C12_GuardRefusesExactly ==
  /\ GuardRan => ((boot.exit = "incompatible sdk") <=> (RestrictedHost /\ AtOrAbove3_729_0))
  /\ (GuardRan /\ ~(RestrictedHost /\ AtOrAbove3_729_0))
       => (boot.pc \in {"listen", "listening"} /\ boot.exit = "none")
  /\ boot.exit = "incompatible sdk" => boot.pc = "exited"

\* The guard ended the process at the first incompatible version.
C12_Witness ==
  /\ boot.pc = "exited" /\ boot.exit = "incompatible sdk"
  /\ boot.version = Version(3, 729, 0, FALSE)
  /\ RestrictedHost

\* ---- C13
SignAnswered == h.route = "sign" /\ h.pc = "done"
Present(v) == v.t \notin {"undefined", "null"} /\ ~(v.t = "string" /\ v.s = <<>>)
\* A number, or the text of one, whose value is an integer of at least 1.
IsPositiveInteger(v) ==
  /\ v.t \in {"number", "string"}
  /\ ToNumber(v).kind = "finite" /\ ~ToNumber(v).frac /\ ~ToNumber(v).neg /\ ToNumber(v).whole >= 1
SignInputsGood ==
  /\ Present(h.key) /\ Present(h.uploadId) /\ Present(h.partNumber)
  /\ ~KeyInvalid(h.key)
  /\ IsPositiveInteger(h.partNumber)

\* C13: a sign-part request is answered with a signed URL if and only if key,
\* uploadId and partNumber are present, the key is valid and partNumber is a
\* positive integer; every other request is answered 400 and nothing is signed.
C13_SignPartIffValid ==
  SignAnswered =>
    IF SignInputsGood
    THEN h.status = 200 /\ h.body.result = "url" /\ h.signed >= 1
    ELSE h.status = 400 /\ h.body.result # "url" /\ h.signed = 0

C15_StoreErrorStatusPropagates ==
  h.rejected.thrown =>
    /\ h.pc = "done" /\ h.route \in {"create", "complete", "abort"}
    /\ h.calls # <<>>
    /\ h.status = (IF h.rejected.code = 0 THEN 500 ELSE h.rejected.code)
    /\ h.body.error # "" /\ h.body.result = "none"

\* The store reported the upload missing to a finalize call.
C15_Witness ==
  /\ h.route = "complete" /\ LastCallIs("CompleteMultipartUpload")
  /\ h.rejected = StoreError(404)
  /\ h.status = 404

\* ---- C16
CreateAnswered == h.route = "create" /\ h.pc = "done"
\* The store replied, and its reply holds a non-empty upload id.
ReplyHasUploadId == h.replyUploadId.t = "string" /\ h.replyUploadId.s # <<>>

FiveMiB == 5 * 1024 * 1024
EightMiB == 8 * 1024 * 1024
ConfigAnswered == boot.pc = "listening" /\ boot.answer # NoConfig
\* The variable is unset, or its value is not a number above zero.
NotAPositiveNumber(env) ==
  \/ env.t # "string"
  \/ Number(env.s).kind # "finite"
  \/ Number(env.s).neg
  \/ Number(env.s).whole = 0 /\ ~Number(env.s).frac

\* C17: whatever UPLOAD_PART_SIZE_BYTES holds, the partSizeBytes the
\* upload-configuration endpoint answers is an integer of at least 5 MiB, and
\* it is 8 MiB when the variable is unset or is not a positive number.
C17_PartSizeAtLeastMinimum ==
  ConfigAnswered =>
    /\ boot.answer.partSizeBytes.kind = "finite" /\ ~boot.answer.partSizeBytes.frac
    /\ ~boot.answer.partSizeBytes.neg /\ boot.answer.partSizeBytes.whole >= FiveMiB
    /\ NotAPositiveNumber(boot.partSizeEnv) => boot.answer.partSizeBytes.whole = EightMiB

\* The variable holds a positive number below the minimum and the endpoint
\* answers the minimum.
C17_Witness ==
  /\ ConfigAnswered
  /\ boot.partSizeEnv = Str(<<"5", "2", "4", "2", "8", "7", "9">>)
  /\ boot.answer.partSizeBytes = Finite(FALSE, FiveMiB, FALSE)

\* ---- C18
\* C18: whatever UPLOAD_MAX_CONCURRENCY holds, the maxConcurrency the
\* upload-configuration endpoint answers is an integer of at least 1, and it
\* is 4 when the variable is unset or is not a positive number.
C18_ConcurrencyAtLeastOne ==
  ConfigAnswered =>
    /\ boot.answer.maxConcurrency.kind = "finite" /\ ~boot.answer.maxConcurrency.frac
    /\ ~boot.answer.maxConcurrency.neg /\ boot.answer.maxConcurrency.whole >= 1
    /\ NotAPositiveNumber(boot.concurrencyEnv) => boot.answer.maxConcurrency.whole = 4

\* ---- C19
\* ceil(N/P): the least count of parts of size P that hold N bytes.
CeilDiv(N, P) == CHOOSE c \in 1..N : c * P >= N /\ (c - 1) * P < N
RECURSIVE SumOfSizes(_)
SumOfSizes(ps) == IF ps = <<>> THEN 0 ELSE ps[1].size + SumOfSizes(Tail(ps))

\* C19: for a file of N > 0 bytes and a part size P > 0 the parts laid out are
\* numbered 1, 2, ... without a gap and never exceed ceil(N/P); once the layout
\* is done there are exactly ceil(N/P) of them, each of size P except the last,
\* whose size is N - P*(ceil(N/P)-1), above 0 and at most P, and the sizes sum
\* to N.
C19_PartLayout ==
  LET N == client.fileSize
      P == client.partSize
      ps == client.parts
      c == CeilDiv(N, P)
  IN client.pc \in {"plan", "transfer"} =>
       /\ Len(ps) <= c
       /\ \A i \in 1..Len(ps) : ps[i].number = i
       /\ client.pc = "transfer" =>
            /\ Len(ps) = c
            /\ \A i \in 1..(c - 1) : ps[i].size = P
            /\ ps[c].size = N - P * (c - 1)
            /\ ps[c].size > 0 /\ ps[c].size <= P
            /\ SumOfSizes(ps) = N

\* A file of two full parts: the last part has the size of the others.
C19_Witness ==
  /\ client.pc = "transfer"
  /\ client.fileSize = 2 * client.partSize /\ client.partSize > 1
  /\ Len(client.parts) = 2 /\ client.parts[2].size = client.partSize

\* ---- C20
\* The tokens the tracker holds for a part.
TokensOf(tracker, k) == {e.ETag : e \in {x \in tracker : x.PartNumber = k}}
RecordStep == client.pc = "transfer" /\ client'.pc = "transfer" /\ client' # client

\* C20: after record(k,t) part k holds the token t and no other, whatever it
\* held before; the token of every other part is as it was; and when part k
\* already held t the tracker and its snapshot are as they were.
C20_RecordIdempotentLastWins ==
  [][RecordStep =>
       LET k == client'.op.k
           t == client'.op.t
       IN /\ k \in 1..Len(client.parts) /\ t \in Tokens
          /\ TokensOf(client'.tracker, k) = {t}
          /\ \A j \in (1..Len(client.parts)) \ {k} :
               TokensOf(client'.tracker, j) = TokensOf(client.tracker, j)
          /\ TokensOf(client.tracker, k) = {t}
               => (client'.tracker = client.tracker
                   /\ snapshot(client'.tracker) = snapshot(client.tracker))]_vars

\* A part recorded with one token has been recorded again with another, while
\* another part holds its own.
C20_Witness ==
  /\ client.pc = "transfer"
  /\ client.op.was = "a" /\ client.op.t = "b"
  /\ TokensOf(client.tracker, client.op.k) = {"b"}
  /\ Cardinality(client.tracker) >= 2

\* ---- C21
\* C21: whatever record operations were made, and in whatever order,
\* isComplete() answers true exactly when every part number in 1..totalParts
\* has a recorded token.
C21_CompleteIffEveryPartRecorded ==
  client.pc = "transfer" =>
    (client.complete <=>
       \A k \in 1..CeilDiv(client.fileSize, client.partSize) :
         TokensOf(client.tracker, k) # {})

\* The highest parts are recorded, one of them twice, and the first is not:
\* isComplete() answers false.
C21_Witness ==
  /\ client.pc = "transfer"
  /\ Len(client.parts) >= 3
  /\ TokensOf(client.tracker, 1) = {}
  /\ \A k \in 2..Len(client.parts) : TokensOf(client.tracker, k) # {}
  /\ client.op.was # NoToken
  /\ ~client.complete

\* ---- C22
Transferring == {k \in DOMAIN client.phase : client.phase[k] = "transferring"}

\* C22: the part transfers in flight are never more than maxConcurrency,
\* whatever the order of completions, failures and retries; and a part's
\* transfer starts only as the answer to a signed-URL request of that part that
\* is outstanding, so a part whose request was refused is not transferred
\* before a new request for it was made and granted.
C22_BoundedPoolAndSignedStart ==
  /\ [](Cardinality(Transferring) <= client.maxConcurrency)
  /\ [][\A k \in DOMAIN client.phase :
          (client'.phase[k] = "transferring" /\ client.phase[k] # "transferring")
            => client.phase[k] = "signing"]_vars

\* The pool is full while one part, refused its signed URL once and dropped by
\* the store or the network afterwards, waits for a worker.
C22_Witness ==
  /\ client.maxConcurrency >= 2
  /\ Cardinality(Transferring) = client.maxConcurrency
  /\ \E k \in DOMAIN client.phase :
       client.phase[k] = "refused" /\ client.failures[k] >= 2

\* ---- C23
FailureOf(k) == client'.failures[k] = client.failures[k] + 1

\* C23: a failed attempt is counted against its part alone and, while the
\* upload goes on, leaves every other part as it was; no part fails more than
\* maxRetries + 1 times, and the upload is marked failed in the step in which a
\* part fails beyond maxRetries; finalize is requested only from an upload that
\* is running with every part recorded, never from a failed one; and no part
\* that has a recorded token is started again, a retried upload included.
C23_RetriesBoundedAndResumed ==
  /\ [](\A k \in DOMAIN client.failures : client.failures[k] <= maxRetries + 1)
  /\ []((\E k \in DOMAIN client.failures : client.failures[k] > maxRetries)
          => client.pc = "failed")
  /\ [][\A k \in DOMAIN client.failures :
          FailureOf(k) =>
            /\ client.phase[k] \in {"signing", "transferring"}
            /\ client'.phase[k] \in {"refused", "dropped"}
            /\ client'.pc = (IF client'.failures[k] > maxRetries THEN "failed" ELSE "upload")
            /\ \A j \in DOMAIN client.failures \ {k} :
                 /\ client'.failures[j] = client.failures[j]
                 /\ client'.pc = "upload" => client'.phase[j] = client.phase[j]]_vars
  /\ [][client'.pc = "finalize" =>
          /\ client.pc \in {"upload", "finalize"}
          /\ \A k \in 1..client.total : TokensOf(client.tracker, k) # {}]_vars
  /\ [][\A k \in DOMAIN client.phase :
          (client'.phase[k] \in {"signing", "transferring"}
             /\ client.phase[k] \notin {"signing", "transferring"})
            => TokensOf(client.tracker, k) = {} /\ TokensOf(client'.tracker, k) = {}]_vars
  /\ [][(client.pc = "failed" /\ client'.pc = "upload" /\ client'.tracker = client.tracker)
          => \A k \in DOMAIN client.phase :
               TokensOf(client.tracker, k) # {} => client'.phase[k] = "recorded"]_vars

\* The user retried a failed upload with the Tracker intact: a part recorded
\* before stays recorded while another, dropped once since, is transferred.
C23_Witness ==
  /\ client.pc = "upload" /\ client.resumed = "intact"
  /\ \E k, j \in DOMAIN client.phase :
       /\ client.phase[k] = "recorded" /\ TokensOf(client.tracker, k) # {}
       /\ client.phase[j] = "transferring" /\ client.failures[j] >= 1

\* ---- C24
Incompatible == RestrictedHost /\ AtOrAbove3_729_0

\* C24: a process whose endpoint and client version are incompatible never
\* listens: it has answered no request and made no store call; the guard's
\* exit is the end of the process; and a request is answered by a listening
\* process only.
C24_IncompatibleNeverServes ==
  /\ [](Incompatible =>
          /\ boot.pc \notin {"listen", "listening"}
          /\ boot.answer = NoConfig
          /\ h = Idle /\ upl = "none")
  /\ [][boot.pc = "exited" => boot' = boot]_vars
  /\ [][boot'.answer # boot.answer => (boot.pc = "listening" /\ ~Incompatible)]_vars

\* The guard has ended a process with a version well above the first
\* incompatible one; nothing was served.
C24_Witness ==
  /\ boot.pc = "exited" /\ boot.exit = "incompatible sdk"
  /\ Incompatible /\ boot.version.minor > 729
  /\ boot.answer = NoConfig /\ h = Idle

\* ---- C25
\* A ListParts call is sent in this step.
ListSent ==
  /\ h'.route = "complete" /\ h'.pc = "list"
  /\ Len(h'.calls) = Len(h.calls) + 1
StillMissing == RequestedWithoutToken \ h.listed

\* C25: every part-listing call asks for at most 1000 parts; the first call of
\* a request carries no marker; every later call is sent only after a page
\* that was truncated and returned a next marker, carries that marker, and is
\* sent only while a requested part without token has not been seen in any
\* page.
C25_ListingPagedByMarker ==
  /\ [](\A i \in 1..Len(h.calls) :
          h.calls[i].op = "ListParts" => h.calls[i].maxParts <= 1000)
  /\ [][ListSent =>
          /\ h'.calls[Len(h'.calls)].op = "ListParts"
          /\ IF h.pc = "list"
             THEN /\ h'.page.truncated
                  /\ h'.page.next # NoMarker
                  /\ h'.marker = h'.page.next
                  /\ StillMissing' # {}
             ELSE /\ Len(h'.calls) = 1
                  /\ h'.marker = NoMarker]_vars

\* A third listing call is pending: it carries the marker of the second page
\* while a requested part is still to be seen.
C25_Witness ==
  /\ h.route = "complete" /\ h.pc = "list"
  /\ Len(h.calls) = 3
  /\ h.page.truncated /\ h.marker = h.page.next /\ h.marker # NoMarker
  /\ StillMissing # {}

\* ---- C26
\* The request passed validation and was answered 400 by the handler once its
\* listing loop had ended, no finalize call sent: it is rejected for a part
\* without a resolvable token.
RejectedForToken ==
  LoopEnded /\ h.pc = "done" /\ h.status = 400 /\ FinalizeCalls = <<>>

\* C26 (as claimed): a complete request rejected for a part without a
\* resolvable token is answered with an error that names part numbers: every
\* requested part without a token that was on no page is among them, and only
\* parts requested without a token are.
C26_RejectionNamesParts ==
  RejectedForToken
    => /\ h.body.names # {}
       /\ Unresolved \subseteq h.body.names
       /\ h.body.names \subseteq RequestedWithoutToken

\* ---- C27
\* C27 (as claimed): a complete request that waits for a page of the listing
\* comes to a finalize call or to a response, whatever pages the store
\* answers, given that it answers every listing call.
C27_ReconciliationTerminates ==
  (h.route = "complete" /\ h.pc = "list") ~> (h.pc \in {"finalize", "done"})

\* ---- C28
\* The entries of the request that carry a token for part pn, and the entries
\* of a finalize call that carry part pn with the client's token, trimmed.
SentWithToken(pn) ==
  {i \in 1..Len(Items) : EntryValid(i) /\ Items[i].pn.v = pn /\ Items[i].etag = PaddedEtag}
SubmittedWithClientToken(fp, pn) ==
  {i \in 1..Len(fp) : fp[i] = [PartNumber |-> pn, ETag |-> <<"c">>]}

\* C28: every finalize call carries, for each part number, as many entries
\* with the client's token (without its surrounding blanks) as the request
\* has entries with a token for that part number, whatever the listing
\* returned for it.
C28_ClientTokenKept ==
  \A c \in 1..Len(FinalizeCalls) : \A pn \in PartNumbers :
    Cardinality(SubmittedWithClientToken(FinalizeCalls[c].parts, pn))
      = Cardinality(SentWithToken(pn))

\* Part 1 was sent with a token and part 2 without; the listing returned its
\* own token for part 1 too, and the finalize call carries the client's.
C28_Witness ==
  /\ Len(FinalizeCalls) = 1
  /\ SentWithToken(1) # {} /\ RequestedWithoutToken = {2}
  /\ 1 \in h.listed /\ 2 \in h.listed
  /\ FinalizeCalls[1].parts = <<[PartNumber |-> 1, ETag |-> <<"c">>],
                                [PartNumber |-> 2, ETag |-> StoreEtag(2)]>>

\* ---- C29
\* C29: a complete request that passes validation and whose valid entries all
\* carry a non-empty token goes straight to the finalize call: that call is
\* the one store call it makes, and no listing call is among its calls.
C29_NoListingWhenTokensGiven ==
  (CompleteValidated /\ h.pc # "idle" /\ RequestedWithoutToken = {})
    => /\ h.pc \in {"finalize", "done"}
       /\ Len(h.calls) = 1
       /\ h.calls[1].op = "CompleteMultipartUpload"
       /\ ListCalls(h) = 0

\* Parts 2 and 1 were sent with their tokens while the store lists both: the
\* request was answered 200 after its single call.
C29_Witness ==
  /\ CompleteValidated /\ h.pc = "done" /\ h.status = 200
  /\ Len(Items) = 2 /\ SentWithToken(1) # {} /\ SentWithToken(2) # {}
  /\ stored = {1, 2}
  /\ Len(h.calls) = 1

\* ---- C30
WebhookInvoked == h.webhook # "none"
ResponseOf(req) == <<req.pc, req.status, req.body>>

\* C30: the webhook is invoked only in the step in which the store commits the
\* upload on the finalize call of a complete request, hence once at most for a
\* request and never for one that was answered with an error; the request is
\* answered in that step with the finalize result, and the response stays as
\* it is when the webhook call succeeds, answers non-OK or fails.
C30_WebhookAfterFinalizeOnly ==
  /\ [](WebhookInvoked =>
          /\ h.route = "complete" /\ h.pc = "done"
          /\ h.status = 200 /\ h.body = ResultBody("completed")
          /\ Len(FinalizeCalls) = 1 /\ LastCallIs("CompleteMultipartUpload")
          /\ upl = "completed")
  /\ [][(h'.webhook = "sent" /\ h.webhook # "sent") =>
          /\ h.webhook = "none"
          /\ h.route = "complete" /\ h.pc = "finalize"
          /\ upl = "open" /\ upl' = "completed"]_vars
  /\ [][(WebhookInvoked /\ h'.webhook # h.webhook) =>
          \/ h' = Idle
          \/ /\ h.webhook = "sent" /\ h'.webhook \in {"ok", "non-OK", "failed"}
             /\ ResponseOf(h') = ResponseOf(h)
             /\ h'.calls = h.calls]_vars
  /\ [](h.pc = "done" /\ h.route = "complete" /\ h.status = 200
          => h.body = ResultBody("completed") /\ upl = "completed")

\* The webhook call failed after the request was answered with the finalize
\* result.
C30_Witness ==
  /\ h.route = "complete" /\ h.pc = "done"
  /\ h.webhook = "failed"
  /\ h.status = 200 /\ h.body = ResultBody("completed")
  /\ ListCalls(h) >= 1

====
